---- MODULE Spec2Model ----
(***************************************************************************)
(* Lottery-ticket sales backend: order creation, payment confirmation      *)
(* (polling endpoint and gateway webhook) and ticket issuance.             *)
(*                                                                         *)
(* The repository holds two iterations of the same service:                *)
(*   "server"   src/server.js           (UPI gateway, settings-driven)     *)
(*   "cashfree" src/unnamed/part_000    (Cashfree gateway, webhook)        *)
(* A deployment runs one of them; variant names it and never changes.      *)
(*                                                                         *)
(* Every handler is a sequence of steps, one per awaited store or gateway  *)
(* call together with the synchronous code that follows it up to the next  *)
(* await.  Requests run in the slots of Procs and interleave step by step. *)
(***************************************************************************)
EXTENDS Integers, Sequences, FiniteSets, TLC

(* ------------------------------ bounds -------------------------------- *)

\* requests admitted in one behaviour
MaxRequests == 3

(* ------------------------- program constants -------------------------- *)

TOTAL_TICKETS == 1000
TICKET_PRICE == 101
DefaultRound == 1
DefaultPrice == 101
DefaultTotal == 1000
AttemptsPerTicket == 10
PollAttempts == 5
MaxOrderQuantity == 100
CodeLength == 5

\* the alphabet of generateRandomCode
chars ==
  << "A", "B", "C", "D", "E", "F", "G", "H", "I", "J", "K", "L", "M",
     "N", "O", "P", "Q", "R", "S", "T", "U", "V", "W", "X", "Y", "Z",
     "0", "1", "2", "3", "4", "5", "6", "7", "8", "9" >>

(* ------------------------------ inputs -------------------------------- *)

Procs == {1, 2}
Variants == {"server", "cashfree"}

\* outcomes of the five Math.floor(Math.random() * 36) draws of one candidate
Draws == { <<0, 0, 0, 0, 0>>, <<33, 10, 28, 16, 25>> }

\* quantities a request carries
Quantities == {1, 2}

\* quantities a request carries when requests interleave
InterleavedQuantities == {1}

Names == {"Asha"}
Mobiles == { <<9, 8, 7, 6, 5, 4, 3, 2, 1, 0>> }

\* phones that are not exactly 10 digits: "12345" and an 11-digit one
InvalidMobiles == { <<1, 2, 3, 4, 5>>, <<9, 8, 7, 6, 5, 4, 3, 2, 1, 0, 0>> }

\* payload.type of a webhook delivery
EventTypes == {"PAYMENT_SUCCESS", "PAYMENT_FAILED"}

(* --------------------------- pure helpers ----------------------------- *)

Range(s) == { s[i] : i \in 1 .. Len(s) }

\* Math.round(a / b) for a >= 0, b > 0
MathRound(a, b) == (2 * a + b) \div (2 * b)

\* a pattern test that lets every phone through
IsTenDigits_Any(mobile) == Len(mobile) >= 0

\* /^\d{10}$/.test(mobile)
IsTenDigits(mobile) ==
  /\ Len(mobile) = 10
  /\ \A i \in 1 .. Len(mobile) : mobile[i] \in 0 .. 9

\* a generator whose loop stops one character early
generateRandomCode_Short(draws) == [i \in 1 .. CodeLength - 1 |-> chars[draws[i] + 1]]

\* generateRandomCode(5): chars.charAt(Math.floor(Math.random() * chars.length)), five times
generateRandomCode(draws) == [i \in 1 .. CodeLength |-> chars[draws[i] + 1]]

\* `${lotteryRound}LOT-${randomPart}`
TicketCode(lotteryRound, randomPart) == <<lotteryRound, "LOT-">> \o randomPart

(* ------------------------------ state --------------------------------- *)

VARIABLES
  variant,    \* which iteration of the service is deployed
  users,      \* users table: set of rows
  payments,   \* payments table: set of rows
  tickets,    \* tickets table: sequence of rows in created_at order
  settings,   \* lottery_settings table: set of rows
  gwOrders,   \* order ids the payment gateway has accepted
  gwPaid,     \* order ids the gateway reports as paid
  storeUp,    \* whether store calls currently succeed
  requests,   \* requests admitted so far
  now,        \* the latest reading of Date.now()
  sameMs,     \* whether the next reading can fall into the same millisecond
  proc,       \* the request in each slot: position, inputs, locals, response
  delivered,  \* history: order ids with a completed webhook delivery that found the Payment created
  firstIssue, \* history: first verify_payment per (order, user, quantity) that issued its tickets
  winners     \* winners table: set of rows

vars ==
  << variant, users, payments, tickets, settings, gwOrders, gwPaid, storeUp,
     requests, now, sameMs, proc, delivered, firstIssue, winners >>

NoPayment ==
  [rid |-> 0, order_id |-> 0, amount |-> 0, status |-> "none", user_id |-> 0]

\* `current` of the settings handler when the select returned no row
NoSettings ==
  [id |-> 0, is_active |-> FALSE, lottery_round |-> 0, ticket_price |-> 0,
   total_tickets |-> 0]

IdleProc ==
  [ pc |-> "idle", op |-> "none", rid |-> 0,
    name |-> "", mobile |-> <<>>, quantity |-> 0, order_id |-> 0, userId |-> 0,
    type |-> "",
    ticketPrice |-> 0, totalTickets |-> 0, lotteryRound |-> 0,
    amount |-> 0, orderId |-> 0,
    polls |-> 0, attempts |-> 0, codes |-> <<>>, existingTickets |-> <<>>,
    payment |-> NoPayment, current |-> NoSettings,
    status |-> 0, body |-> <<>>, message |-> "",
    answer |-> "", was |-> "none",
    minted |-> 0, touched |-> FALSE, dup |-> FALSE, after |-> FALSE,
    overlap |-> FALSE ]

\* a store nothing was sold from, with no settings row (the hardcoded defaults apply)
EmptyStore ==
  [settings |-> {}, users |-> {}, payments |-> {}, tickets |-> <<>>, orders |-> {}]

\* a store nothing was sold from, with one active settings row
ConfiguredStore ==
  [EmptyStore EXCEPT
     !.settings = { [id |-> 1, is_active |-> TRUE, lottery_round |-> 2,
                     ticket_price |-> 50, total_tickets |-> 1] }]

\* a store after an earlier sale: order 100 of user 100, two tickets at the default
\* price, confirmed; they hold every code the draws of Draws give in round 1
SoldStore ==
  [EmptyStore EXCEPT
     !.users = { [id |-> 100, name |-> "Ravi",
                  mobile |-> <<9, 1, 2, 3, 4, 5, 6, 7, 8, 0>>] },
     !.payments = { [rid |-> 100, order_id |-> 100, amount |-> 2 * DefaultPrice,
                     status |-> "success", user_id |-> 100] },
     !.tickets =
        << [ticket_code |-> TicketCode(DefaultRound, generateRandomCode(<<0, 0, 0, 0, 0>>)),
            user_id |-> 100, status |-> "confirmed", ord |-> 100,
            via |-> "verify_payment"],
           [ticket_code |->
              TicketCode(DefaultRound, generateRandomCode(<<33, 10, 28, 16, 25>>)),
            user_id |-> 100, status |-> "confirmed", ord |-> 100,
            via |-> "verify_payment"] >>,
     !.orders = {100}]

\* a store whose default inventory is sold: DefaultTotal tickets of earlier orders
SoldOutStore ==
  [EmptyStore EXCEPT
     !.tickets =
        [i \in 1 .. DefaultTotal |->
           [ticket_code |->
              TicketCode(DefaultRound,
                         generateRandomCode(<<(i \div 36) % 36, i % 36, 0, 0, 1>>)),
            user_id |-> 100, status |-> "confirmed", ord |-> 100,
            via |-> "verify_payment"]]]

InitialStores == {EmptyStore, ConfiguredStore, SoldStore, SoldOutStore}

Init ==
  /\ variant \in Variants
  /\ \E w \in InitialStores :
       /\ settings = w.settings
       /\ users = w.users
       /\ payments = w.payments
       /\ tickets = w.tickets
       /\ gwOrders = w.orders
       /\ gwPaid = w.orders
  /\ storeUp = TRUE
  /\ requests = 0
  /\ now = 0
  /\ sameMs = FALSE
  /\ proc = [p \in Procs |-> IdleProc]
  /\ delivered = {}
  /\ firstIssue = {}
  /\ winners = {}

(* --------------------------- store queries ---------------------------- *)

\* JavaScript's  x || d  on numbers
OrDefault(x, d) == IF x = 0 THEN d ELSE x

\* .eq("is_active", true).order("id", { ascending: false }).limit(1).single()
ActiveSettings == { s \in settings : s.is_active }

LatestActive == CHOOSE s \in ActiveSettings : \A t \in ActiveSettings : t.id <= s.id

DefaultSettings ==
  [id |-> 0, is_active |-> FALSE, lottery_round |-> DefaultRound,
   ticket_price |-> DefaultPrice, total_tickets |-> DefaultTotal]

\* getSettings: the latest active row, or the hardcoded defaults (also on a store error)
getSettings ==
  IF storeUp /\ ActiveSettings # {} THEN LatestActive ELSE DefaultSettings

getTicketPrice == OrDefault(getSettings.ticket_price, DefaultPrice)

getTotalTickets == OrDefault(getSettings.total_tickets, DefaultTotal)

\* getCurrentLotteryRound, in both iterations: the active row's round, else 1
getCurrentLotteryRound == OrDefault(getSettings.lottery_round, DefaultRound)

\* getSoldTicketsCount of server.js: a store error counts as 0 sold
getSoldTicketsCount == IF storeUp THEN Len(tickets) ELSE 0

\* the price a deployment sells at
PriceOf(v) == IF v = "server" THEN getTicketPrice ELSE TICKET_PRICE

\* the inventory a deployment sells from
TotalOf(v) == IF v = "server" THEN getTotalTickets ELSE TOTAL_TICKETS

UsersByMobile(mobile) == { u \in users : u.mobile = mobile }

PaymentsByOrder(order_id) == { r \in payments : r.order_id = order_id }

\* .eq("order_id", id).single() / .maybeSingle(): the row when exactly one matches
SinglePayment(order_id) ==
  IF storeUp /\ Cardinality(PaymentsByOrder(order_id)) = 1
  THEN CHOOSE r \in PaymentsByOrder(order_id) : TRUE
  ELSE NoPayment

\* .update({ status: "success" }).eq("order_id", id): every matching row
MarkSuccess(order_id) ==
  { IF r.order_id = order_id THEN [r EXCEPT !.status = "success"] ELSE r : r \in payments }

\* .eq("ticket_code", code).single(): whether the lookup returns a row
TicketExists(code) == storeUp /\ \E i \in 1 .. Len(tickets) : tickets[i].ticket_code = code

\* .eq("user_id", userId).order("created_at", { ascending: false }).limit(quantity)
LatestCodes(userId, quantity) ==
  LET own == { i \in 1 .. Len(tickets) : tickets[i].user_id = userId }
      n == IF quantity < Cardinality(own) THEN quantity ELSE Cardinality(own)
      newest(k) == CHOOSE i \in own : Cardinality({ j \in own : j > i }) = k - 1
  IN [k \in 1 .. n |-> tickets[newest(k)].ticket_code]

ExistingTickets(userId, quantity) ==
  IF storeUp THEN LatestCodes(userId, quantity) ELSE <<>>

\* the uniqueness constraint of the tickets table on ticket_code
BatchAccepted(codes) ==
  /\ \A i, j \in 1 .. Len(codes) : i # j => codes[i] # codes[j]
  /\ \A i \in 1 .. Len(codes) : \A k \in 1 .. Len(tickets) : tickets[k].ticket_code # codes[i]

\* the rows of one batch insert; ord and via record which confirmation minted them
TicketRows(r, codes, user_id) ==
  [i \in 1 .. Len(codes) |->
     [ticket_code |-> codes[i], user_id |-> user_id, status |-> "confirmed",
      ord |-> r.order_id, via |-> r.op]]

(* ---------------------------- responses ------------------------------- *)

Busy(p) == proc[p].pc \notin {"idle", "done"}

\* the request has answered: its inputs, response and history flags stay readable
Done(r, status, body, message) ==
  [IdleProc EXCEPT
     !.pc = "done", !.op = r.op, !.rid = r.rid,
     !.name = r.name, !.mobile = r.mobile, !.quantity = r.quantity,
     !.order_id = r.order_id, !.userId = r.userId, !.type = r.type,
     !.orderId = r.orderId, !.polls = r.polls, !.answer = r.answer, !.was = r.was,
     !.status = status, !.body = body, !.message = message,
     !.minted = r.minted, !.touched = r.touched, !.dup = r.dup,
     !.after = r.after, !.overlap = r.overlap]

Respond(p, status, body, message) ==
  proc' = [proc EXCEPT ![p] = Done(proc[p], status, body, message)]

\* answer after a last change r of the request's locals
RespondWith(p, r, status, body, message) ==
  proc' = [proc EXCEPT ![p] = Done(r, status, body, message)]

Goto(p, r) == proc' = [proc EXCEPT ![p] = r]

(* ------------------------- request admission -------------------------- *)

CanStart(p) == ~Busy(p) /\ requests < MaxRequests

\* POST /api/create-order arrives
StartCreateOrder(p, name, mobile, quantity) ==
  /\ CanStart(p)
  /\ requests' = requests + 1
  /\ proc' = [proc EXCEPT ![p] =
       [IdleProc EXCEPT
          !.pc = IF variant = "server" THEN "co_price" ELSE "cf_sold",
          !.op = "create_order", !.rid = requests + 1,
          !.name = name, !.mobile = mobile, !.quantity = quantity]]
  /\ UNCHANGED << variant, users, payments, tickets, settings, gwOrders, gwPaid,
                  storeUp, now, sameMs, delivered, firstIssue, winners >>

(* ------------------- POST /api/create-order, server ------------------- *)

\* the handler's unchanged tables, by what a step may write
OnlyProc ==
  /\ UNCHANGED << variant, users, payments, tickets, settings, gwOrders, gwPaid,
                  storeUp, requests, now, delivered, firstIssue, winners >>
  /\ sameMs' = FALSE

\* !name || !mobile || !quantity
MissingField(r) == r.name = "" \/ r.mobile = <<>> \/ r.quantity = 0

\* validation, then getTicketPrice
CoPrice(p) ==
  LET r == proc[p] IN
  /\ r.pc = "co_price"
  /\ IF MissingField(r)
     THEN Respond(p, 400, <<>>, "All fields are required")
     ELSE IF ~IsTenDigits(r.mobile)
     THEN Respond(p, 400, <<>>, "Mobile number must be 10 digits")
     ELSE IF r.quantity < 1 \/ r.quantity > MaxOrderQuantity
     THEN Respond(p, 400, <<>>, "Quantity must be between 1 and 100")
     ELSE Goto(p, [r EXCEPT !.pc = "co_total", !.ticketPrice = getTicketPrice])
  /\ OnlyProc

\* getTotalTickets
CoTotal(p) ==
  LET r == proc[p] IN
  /\ r.pc = "co_total"
  /\ Goto(p, [r EXCEPT !.pc = "co_sold", !.totalTickets = getTotalTickets])
  /\ OnlyProc

\* remaining < quantity
InsufficientInventory(totalTickets, sold, quantity) == totalTickets - sold < quantity

\* getSoldTicketsCount and the inventory check
CoSold(p) ==
  LET r == proc[p] IN
  /\ r.pc = "co_sold"
  /\ IF InsufficientInventory(r.totalTickets, getSoldTicketsCount, r.quantity)
     THEN Respond(p, 400, <<>>, "Only n tickets remaining")
     ELSE Goto(p, [r EXCEPT !.pc = "co_user"])
  /\ OnlyProc

\* users select by mobile: reuse the first row returned, or go on to insert
CoUser(p) ==
  LET r == proc[p] IN
  /\ r.pc = "co_user"
  /\ IF ~storeUp
     THEN Respond(p, 500, <<>>, "Database error while checking user")
     ELSE IF UsersByMobile(r.mobile) # {}
     THEN \E u \in UsersByMobile(r.mobile) :
            Goto(p, [r EXCEPT !.pc = "co_payment", !.userId = u.id])
     ELSE Goto(p, [r EXCEPT !.pc = "co_user_insert"])
  /\ OnlyProc

\* users insert
CoUserInsert(p) ==
  LET r == proc[p] IN
  /\ r.pc = "co_user_insert"
  /\ IF ~storeUp
     THEN /\ Respond(p, 500, <<>>, "Failed to create user account")
          /\ users' = users
     ELSE /\ users' = users \cup {[id |-> r.rid, name |-> r.name, mobile |-> r.mobile]}
          /\ Goto(p, [r EXCEPT !.pc = "co_payment", !.userId = r.rid])
  /\ UNCHANGED << variant, payments, tickets, settings, gwOrders, gwPaid,
                  storeUp, requests, now, delivered, firstIssue, winners >>
  /\ sameMs' = FALSE

\* Date.now(): a later millisecond, or the millisecond of the reading before it
\* when no awaited call has completed since
DateNow == {now + 1} \cup (IF sameMs THEN {now} ELSE {})

\* amount, orderId, payments insert with status created
CoPayment(p) ==
  LET r == proc[p]
      amount == r.quantity * r.ticketPrice
  IN
  /\ r.pc = "co_payment"
  /\ \E orderId \in DateNow :
       /\ now' = orderId
       /\ sameMs' = TRUE
       /\ IF ~storeUp
          THEN /\ Respond(p, 500, <<>>, "Failed to create payment record")
               /\ payments' = payments
          ELSE /\ payments' = payments \cup
                    {[rid |-> r.rid, order_id |-> orderId, amount |-> amount,
                      status |-> "created", user_id |-> r.userId]}
               /\ Goto(p, [r EXCEPT !.pc = "co_gateway", !.amount = amount,
                                    !.orderId = orderId, !.touched = TRUE])
  /\ UNCHANGED << variant, users, tickets, settings, gwOrders, gwPaid,
                  storeUp, requests, delivered, firstIssue, winners >>

\* createGatewayOrder: the gateway accepts the order, or the call fails or is rejected
CoGateway(p) ==
  LET r == proc[p] IN
  /\ r.pc = "co_gateway"
  /\ \E accepted \in BOOLEAN :
       IF accepted
       THEN /\ gwOrders' = gwOrders \cup {r.orderId}
            /\ Respond(p, 200, <<>>, "order")
       ELSE /\ gwOrders' = gwOrders
            /\ Goto(p, [r EXCEPT !.pc = "co_cleanup"])
  /\ UNCHANGED << variant, users, payments, tickets, settings, gwPaid,
                  storeUp, requests, now, delivered, firstIssue, winners >>
  /\ sameMs' = FALSE

\* payments.delete().eq("order_id", orderId)
DeleteByOrder(order_id) == { r \in payments : r.order_id # order_id }

\* the compensating delete (its result is not looked at), then the 500
CoCleanup(p) ==
  LET r == proc[p] IN
  /\ r.pc = "co_cleanup"
  /\ payments' = IF storeUp THEN DeleteByOrder(r.orderId) ELSE payments
  /\ Respond(p, 500, <<>>, "gateway")
  /\ UNCHANGED << variant, users, tickets, settings, gwOrders, gwPaid,
                  storeUp, requests, now, delivered, firstIssue, winners >>
  /\ sameMs' = FALSE

(* ------------------ POST /api/create-order, cashfree ------------------ *)

\* validation, getSoldTicketsCount (a store error is thrown) and the inventory check
CfSold(p) ==
  LET r == proc[p] IN
  /\ r.pc = "cf_sold"
  /\ IF MissingField(r) \/ r.quantity <= 0
     THEN Respond(p, 400, <<>>, "Invalid input")
     ELSE IF ~IsTenDigits(r.mobile)
     THEN Respond(p, 400, <<>>, "Mobile must be 10 digits")
     ELSE IF ~storeUp
     THEN Respond(p, 500, <<>>, "store")
     ELSE IF InsufficientInventory(TOTAL_TICKETS, Len(tickets), r.quantity)
     THEN Respond(p, 400, <<>>, "Not enough tickets left")
     ELSE Goto(p, [r EXCEPT !.pc = "cf_round"])
  /\ OnlyProc

\* getCurrentLotteryRound
CfRound(p) ==
  LET r == proc[p] IN
  /\ r.pc = "cf_round"
  /\ Goto(p, [r EXCEPT !.pc = "cf_user", !.lotteryRound = getCurrentLotteryRound])
  /\ OnlyProc

\* users select by mobile, limit 1 (a store error reads as no user)
CfUser(p) ==
  LET r == proc[p] IN
  /\ r.pc = "cf_user"
  /\ IF storeUp /\ UsersByMobile(r.mobile) # {}
     THEN \E u \in UsersByMobile(r.mobile) :
            Goto(p, [r EXCEPT !.pc = "cf_user_update", !.userId = u.id])
     ELSE Goto(p, [r EXCEPT !.pc = "cf_user_insert"])
  /\ OnlyProc

\* users.update({ name }).eq("id", userId)
RenameUser(id, name) ==
  { IF u.id = id THEN [u EXCEPT !.name = name] ELSE u : u \in users }

CfUserUpdate(p) ==
  LET r == proc[p] IN
  /\ r.pc = "cf_user_update"
  /\ users' = IF storeUp THEN RenameUser(r.userId, r.name) ELSE users
  /\ Goto(p, [r EXCEPT !.pc = "cf_gateway"])
  /\ UNCHANGED << variant, payments, tickets, settings, gwOrders, gwPaid,
                  storeUp, requests, now, delivered, firstIssue, winners >>
  /\ sameMs' = FALSE

CfUserInsert(p) ==
  LET r == proc[p] IN
  /\ r.pc = "cf_user_insert"
  /\ IF ~storeUp
     THEN /\ Respond(p, 500, <<>>, "store")
          /\ users' = users
     ELSE /\ users' = users \cup {[id |-> r.rid, name |-> r.name, mobile |-> r.mobile]}
          /\ Goto(p, [r EXCEPT !.pc = "cf_gateway", !.userId = r.rid])
  /\ UNCHANGED << variant, payments, tickets, settings, gwOrders, gwPaid,
                  storeUp, requests, now, delivered, firstIssue, winners >>
  /\ sameMs' = FALSE

\* orderId, amount, cashfreeRequest("/pg/orders", "POST"): a failure is thrown
CfGateway(p) ==
  LET r == proc[p]
      amount == r.quantity * TICKET_PRICE
  IN
  /\ r.pc = "cf_gateway"
  /\ \E orderId \in DateNow, accepted \in BOOLEAN :
       /\ now' = orderId
       /\ sameMs' = TRUE
       /\ IF accepted
          THEN /\ gwOrders' = gwOrders \cup {orderId}
               /\ Goto(p, [r EXCEPT !.pc = "cf_payment", !.amount = amount,
                                    !.orderId = orderId])
          ELSE /\ gwOrders' = gwOrders
               /\ Respond(p, 500, <<>>, "gateway")
  /\ UNCHANGED << variant, users, payments, tickets, settings, gwPaid,
                  storeUp, requests, delivered, firstIssue, winners >>

\* payments insert with status created (its result is not looked at), then the 200
CfPayment(p) ==
  LET r == proc[p] IN
  /\ r.pc = "cf_payment"
  /\ payments' =
       IF storeUp
       THEN payments \cup
              {[rid |-> r.rid, order_id |-> r.orderId, amount |-> r.amount,
                status |-> "created", user_id |-> r.userId]}
       ELSE payments
  /\ proc' = [proc EXCEPT ![p] =
       Done([r EXCEPT !.touched = storeUp], 200, <<>>, "order")]
  /\ UNCHANGED << variant, users, tickets, settings, gwOrders, gwPaid,
                  storeUp, requests, now, delivered, firstIssue, winners >>
  /\ sameMs' = FALSE

CreateOrderStep(p) ==
  \/ CoPrice(p) \/ CoTotal(p) \/ CoSold(p) \/ CoUser(p) \/ CoUserInsert(p)
  \/ CoPayment(p) \/ CoGateway(p) \/ CoCleanup(p)
  \/ CfSold(p) \/ CfRound(p) \/ CfUser(p) \/ CfUserUpdate(p) \/ CfUserInsert(p)
  \/ CfGateway(p) \/ CfPayment(p)

(* -------------------------- payment gateway --------------------------- *)

\* the customer pays an order the gateway has accepted
GatewayPay(o) ==
  /\ o \in gwOrders \ gwPaid
  /\ gwPaid' = gwPaid \cup {o}
  /\ UNCHANGED << variant, users, payments, tickets, settings, gwOrders,
                  storeUp, requests, now, sameMs, proc, delivered, firstIssue, winners >>

\* what an order-status query can answer: the order's status, or a failed call
GatewayAnswers(o) ==
  {"ERROR"} \cup
  (IF o \in gwPaid THEN {"PAID"} ELSE IF o \in gwOrders THEN {"ACTIVE"} ELSE {})

\* a status check that takes every answered status for a success
IsPaid_AnyStatus(answer) == answer \in {"PAID", "ACTIVE"}

\* order.order_status === "PAID" / statusData.result.status === "SUCCESS"
IsPaid(answer) == answer = "PAID"

(* ------------------- confirmation requests arrive --------------------- *)

Confirmations == {"verify_payment", "webhook"}

\* another confirmation of the same order is in flight
Overlaps(p, order_id) ==
  { q \in Procs \ {p} :
      Busy(q) /\ proc[q].op \in Confirmations /\ proc[q].order_id = order_id }

\* the status of the order's Payment when a confirmation arrives
StatusAtStart(order_id) ==
  IF \E r \in PaymentsByOrder(order_id) : r.status = "created" THEN "created"
  ELSE IF PaymentsByOrder(order_id) # {} THEN "success"
  ELSE "none"

FirstIssueOf(order_id, userId, quantity) ==
  { f \in firstIssue :
      f.order_id = order_id /\ f.userId = userId /\ f.quantity = quantity }

\* POST /api/verify-payment arrives
StartVerify(p, order_id, userId, quantity) ==
  /\ CanStart(p)
  /\ requests' = requests + 1
  /\ proc' = [q \in Procs |->
       IF q = p
       THEN [IdleProc EXCEPT
               !.pc = IF variant = "server" THEN "v_status" ELSE "p_poll",
               !.op = "verify_payment", !.rid = requests + 1,
               !.order_id = order_id, !.userId = userId, !.quantity = quantity,
               !.was = StatusAtStart(order_id),
               !.after = FirstIssueOf(order_id, userId, quantity) # {},
               !.overlap = Overlaps(p, order_id) # {}]
       ELSE IF q \in Overlaps(p, order_id)
       THEN [proc[q] EXCEPT !.overlap = TRUE]
       ELSE proc[q]]
  /\ UNCHANGED << variant, users, payments, tickets, settings, gwOrders, gwPaid,
                  storeUp, now, sameMs, delivered, firstIssue, winners >>

\* POST /api/cashfree/webhook arrives (the cashfree iteration's route)
StartWebhook(p, type, order_id) ==
  /\ variant = "cashfree"
  /\ CanStart(p)
  /\ requests' = requests + 1
  /\ proc' = [q \in Procs |->
       IF q = p
       THEN [IdleProc EXCEPT
               !.pc = "w_payment", !.op = "webhook", !.rid = requests + 1,
               !.type = type, !.order_id = order_id,
               !.was = StatusAtStart(order_id),
               !.dup = order_id \in delivered,
               !.overlap = Overlaps(p, order_id) # {}]
       ELSE IF q \in Overlaps(p, order_id)
       THEN [proc[q] EXCEPT !.overlap = TRUE]
       ELSE proc[q]]
  /\ UNCHANGED << variant, users, payments, tickets, settings, gwOrders, gwPaid,
                  storeUp, now, sameMs, delivered, firstIssue, winners >>

(* ------------------------ ticket issuance engine ----------------------- *)

\* const maxAttempts = quantity * 10
MaxAttempts(quantity) == quantity * AttemptsPerTicket

\* a loop that stops only when the batch is full
KeepGenerating_NoBudget(codes, quantity, attempts) == Len(codes) < quantity

\* the while condition of generateUniqueTicketCodes
KeepGenerating(codes, quantity, attempts) ==
  Len(codes) < quantity /\ attempts < MaxAttempts(quantity)

\* the candidate is pushed when the lookup returned no row
AcceptCandidate(code) == ~TicketExists(code)

\* where the caller of generateUniqueTicketCodes(quantity, round) waits next:
\* in the loop's first lookup, or, when the loop has nothing to do, in the insert
EnterGenerate(r, quantity, lotteryRound, insertPc) ==
  [r EXCEPT
     !.quantity = quantity, !.lotteryRound = lotteryRound,
     !.attempts = 0, !.codes = <<>>,
     !.pc = IF KeepGenerating(<<>>, quantity, 0) THEN "gen" ELSE insertPc]

InsertPc(r) ==
  IF r.op = "webhook" THEN "w_insert"
  ELSE IF variant = "server" THEN "v_insert" ELSE "p_insert"

\* a webhook delivery that found its Payment created has answered
DeliveredAfter(r) ==
  IF r.op = "webhook" THEN delivered \cup {r.order_id} ELSE delivered

\* one iteration of the loop of generateUniqueTicketCodes: draw, look up, push or not;
\* on leaving the loop, throw (the handler answers 500) or return the codes
Generate(p) ==
  LET r == proc[p] IN
  /\ r.pc = "gen"
  /\ \E d \in Draws :
       LET ticketCode == TicketCode(r.lotteryRound, generateRandomCode(d))
           attempts == r.attempts + 1
           codes == IF AcceptCandidate(ticketCode)
                    THEN Append(r.codes, ticketCode) ELSE r.codes
           r2 == [r EXCEPT !.attempts = attempts, !.codes = codes]
       IN
       IF KeepGenerating(codes, r.quantity, attempts)
       THEN Goto(p, r2) /\ delivered' = delivered
       ELSE IF Len(codes) < r.quantity
       THEN /\ Respond(p, 500, <<>>, "Failed to generate unique ticket codes")
            /\ delivered' = DeliveredAfter(r)
       ELSE /\ Goto(p, [r2 EXCEPT !.pc = InsertPc(r)])
            /\ delivered' = delivered
  /\ UNCHANGED << variant, users, payments, tickets, settings, gwOrders, gwPaid,
                  storeUp, requests, now, firstIssue, winners >>
  /\ sameMs' = FALSE

\* an insert that replaces the table by the batch
InsertTickets_Replace(r, codes, user_id) ==
  [i \in 1 .. Len(codes) |->
     [ticket_code |-> codes[i], user_id |-> user_id, status |-> "confirmed",
      ord |-> r.order_id, via |-> r.op]]

\* tickets.insert(rows): the whole batch, or nothing on an error
InsertOk(codes) == storeUp /\ BatchAccepted(codes)

InsertTickets(r, codes, user_id) ==
  IF InsertOk(codes) THEN tickets \o TicketRows(r, codes, user_id) ELSE tickets

(* ------------------- POST /api/verify-payment, server ------------------ *)

\* validation, then one order-status query
VStatus(p) ==
  LET r == proc[p] IN
  /\ r.pc = "v_status"
  /\ IF r.order_id = 0 \/ r.userId = 0 \/ r.quantity = 0
     THEN Respond(p, 400, <<>>, "Missing required fields")
     ELSE \E answer \in GatewayAnswers(r.order_id) :
            LET r2 == [r EXCEPT !.answer = answer] IN
            IF answer = "ERROR"
            THEN RespondWith(p, r2, 500, <<>>, "Payment verification failed")
            ELSE IF ~IsPaid(answer)
            THEN RespondWith(p, r2, 400, <<>>, "Payment not successful yet")
            ELSE Goto(p, [r2 EXCEPT !.pc = "v_existing"])
  /\ OnlyProc

\* the user's latest `quantity` tickets
VExisting(p) ==
  LET r == proc[p] IN
  /\ r.pc = "v_existing"
  /\ Goto(p, [r EXCEPT !.pc = "v_payment",
                       !.existingTickets = ExistingTickets(r.userId, r.quantity)])
  /\ OnlyProc

\* payment?.status === "success" && existingTickets && existingTickets.length >= quantity
AlreadyGenerated(payment, existingTickets, quantity) ==
  payment.status = "success" /\ Len(existingTickets) >= quantity

\* the Payment's status, then the idempotency guard
VPayment(p) ==
  LET r == proc[p]
      payment == SinglePayment(r.order_id)
  IN
  /\ r.pc = "v_payment"
  /\ IF AlreadyGenerated(payment, r.existingTickets, r.quantity)
     THEN Respond(p, 200, r.existingTickets, "tickets")
     ELSE Goto(p, [r EXCEPT !.pc = "v_round", !.payment = payment])
  /\ OnlyProc

\* getCurrentLotteryRound, then into generateUniqueTicketCodes
VRound(p) ==
  LET r == proc[p] IN
  /\ r.pc = "v_round"
  /\ Goto(p, EnterGenerate(r, r.quantity, getCurrentLotteryRound, "v_insert"))
  /\ OnlyProc

\* tickets insert for the request's userId; an error answers 500
VInsert(p) ==
  LET r == proc[p] IN
  /\ r.pc = "v_insert"
  /\ tickets' = InsertTickets(r, r.codes, r.userId)
  /\ IF InsertOk(r.codes)
     THEN Goto(p, [r EXCEPT !.pc = "v_update", !.minted = r.minted + Len(r.codes)])
     ELSE Respond(p, 500, <<>>, "Failed to generate tickets")
  /\ UNCHANGED << variant, users, payments, settings, gwOrders, gwPaid,
                  storeUp, requests, now, delivered, firstIssue, winners >>
  /\ sameMs' = FALSE

\* the first verify_payment(order, user, quantity) that issued quantity tickets
RecordFirstIssue(r) ==
  IF r.minted = r.quantity /\ r.quantity > 0
     /\ FirstIssueOf(r.order_id, r.userId, r.quantity) = {}
  THEN firstIssue \cup
         {[order_id |-> r.order_id, userId |-> r.userId, quantity |-> r.quantity,
           codes |-> Range(r.codes)]}
  ELSE firstIssue

\* payments update to success (its error is only logged), then the 200 with the codes
VUpdate(p) ==
  LET r == proc[p]
      marked == IF storeUp THEN MarkSuccess(r.order_id) ELSE payments
  IN
  /\ r.pc = "v_update"
  /\ payments' = marked
  /\ proc' = [proc EXCEPT ![p] =
       Done([r EXCEPT !.touched = (marked # payments)], 200, r.codes, "tickets")]
  /\ firstIssue' = RecordFirstIssue(r)
  /\ UNCHANGED << variant, users, tickets, settings, gwOrders, gwPaid,
                  storeUp, requests, now, delivered, winners >>
  /\ sameMs' = FALSE

(* ------------------ POST /api/verify-payment, cashfree ----------------- *)

\* while (attempts < 5): one order-status query per iteration, 2 s apart
PPoll(p) ==
  LET r == proc[p] IN
  /\ r.pc = "p_poll"
  /\ \E answer \in GatewayAnswers(r.order_id) :
       LET r2 == [r EXCEPT !.answer = answer] IN
       IF answer = "ERROR"
       THEN RespondWith(p, r2, 500, <<>>, "gateway")
       ELSE IF IsPaid(answer)
       THEN Goto(p, [r2 EXCEPT !.pc = "p_round", !.polls = 0])
       ELSE IF r.polls + 1 < PollAttempts
       THEN Goto(p, [r2 EXCEPT !.polls = r.polls + 1])
       ELSE RespondWith(p, [r2 EXCEPT !.polls = r.polls + 1], 400, <<>>,
                        "Payment not confirmed yet")
  /\ OnlyProc

\* getCurrentLotteryRound, then into generateUniqueTicketCodes
PRound(p) ==
  LET r == proc[p] IN
  /\ r.pc = "p_round"
  /\ Goto(p, EnterGenerate(r, r.quantity, getCurrentLotteryRound, "p_insert"))
  /\ OnlyProc

\* tickets insert for the request's userId; an error is thrown (500)
PInsert(p) ==
  LET r == proc[p] IN
  /\ r.pc = "p_insert"
  /\ tickets' = InsertTickets(r, r.codes, r.userId)
  /\ IF InsertOk(r.codes)
     THEN Goto(p, [r EXCEPT !.pc = "p_update", !.minted = r.minted + Len(r.codes)])
     ELSE Respond(p, 500, <<>>, "insert")
  /\ UNCHANGED << variant, users, payments, settings, gwOrders, gwPaid,
                  storeUp, requests, now, delivered, firstIssue, winners >>
  /\ sameMs' = FALSE

\* payments update to success (its result is not looked at), then the 200 with the codes
PUpdate(p) ==
  LET r == proc[p]
      marked == IF storeUp THEN MarkSuccess(r.order_id) ELSE payments
  IN
  /\ r.pc = "p_update"
  /\ payments' = marked
  /\ proc' = [proc EXCEPT ![p] =
       Done([r EXCEPT !.touched = (marked # payments)], 200, r.codes, "tickets")]
  /\ firstIssue' = RecordFirstIssue(r)
  /\ UNCHANGED << variant, users, tickets, settings, gwOrders, gwPaid,
                  storeUp, requests, now, delivered, winners >>
  /\ sameMs' = FALSE

VerifyStep(p) ==
  \/ VStatus(p) \/ VExisting(p) \/ VPayment(p) \/ VRound(p) \/ VInsert(p) \/ VUpdate(p)
  \/ PPoll(p) \/ PRound(p) \/ PInsert(p) \/ PUpdate(p)

(* --------------------- POST /api/cashfree/webhook ---------------------- *)

\* a payload without data.order.order_id
Malformed == -1

\* an event check that takes every event type for the success event
IsSuccessEvent_Any(type) == type \in EventTypes

\* payload.type === "PAYMENT_SUCCESS"
IsSuccessEvent(type) == type = "PAYMENT_SUCCESS"

\* a check that stops only when the order has no Payment row
AlreadyProcessed_OnlyMissing(payment) == payment = NoPayment

\* !payment || payment.status === "success"
AlreadyProcessed(payment) == payment = NoPayment \/ payment.status = "success"

\* event type check, payments select by order id, the already-processed check
WPayment(p) ==
  LET r == proc[p]
      payment == SinglePayment(r.order_id)
  IN
  /\ r.pc = "w_payment"
  /\ IF ~IsSuccessEvent(r.type)
     THEN Respond(p, 200, <<>>, "Ignored")
     ELSE IF r.order_id = Malformed
     THEN Respond(p, 500, <<>>, "Webhook failed")
     ELSE IF AlreadyProcessed(payment)
     THEN Respond(p, 200, <<>>, "Already processed")
     ELSE Goto(p, [r EXCEPT !.pc = "w_update", !.payment = payment])
  /\ OnlyProc

\* payments update to success, before any ticket exists
WUpdate(p) ==
  LET r == proc[p]
      marked == IF storeUp THEN MarkSuccess(r.order_id) ELSE payments
  IN
  /\ r.pc = "w_update"
  /\ payments' = marked
  /\ Goto(p, [r EXCEPT !.pc = "w_order", !.touched = (marked # payments)])
  /\ UNCHANGED << variant, users, tickets, settings, gwOrders, gwPaid,
                  storeUp, requests, now, delivered, firstIssue, winners >>
  /\ sameMs' = FALSE

\* Math.round(orderRow.amount / TICKET_PRICE)
WebhookQuantity(amount) == MathRound(amount, TICKET_PRICE)

\* payments select user_id, amount (.single(): no row makes orderRow.amount throw)
WOrder(p) ==
  LET r == proc[p]
      orderRow == SinglePayment(r.order_id)
  IN
  /\ r.pc = "w_order"
  /\ IF orderRow = NoPayment
     THEN /\ Respond(p, 500, <<>>, "Webhook failed")
          /\ delivered' = DeliveredAfter(r)
     ELSE /\ Goto(p, [r EXCEPT !.pc = "w_round", !.payment = orderRow,
                               !.quantity = WebhookQuantity(orderRow.amount)])
          /\ delivered' = delivered
  /\ UNCHANGED << variant, users, payments, tickets, settings, gwOrders, gwPaid,
                  storeUp, requests, now, firstIssue, winners >>
  /\ sameMs' = FALSE

\* getCurrentLotteryRound, then into generateUniqueTicketCodes
WRound(p) ==
  LET r == proc[p] IN
  /\ r.pc = "w_round"
  /\ Goto(p, EnterGenerate(r, r.quantity, getCurrentLotteryRound, "w_insert"))
  /\ OnlyProc

\* tickets insert for the Payment's user (its result is not looked at), then the 200
WInsert(p) ==
  LET r == proc[p] IN
  /\ r.pc = "w_insert"
  /\ tickets' = InsertTickets(r, r.codes, r.payment.user_id)
  /\ proc' = [proc EXCEPT ![p] =
       Done([r EXCEPT !.minted = IF InsertOk(r.codes)
                                 THEN r.minted + Len(r.codes) ELSE r.minted],
            200, <<>>, "OK")]
  /\ delivered' = DeliveredAfter(r)
  /\ UNCHANGED << variant, users, payments, settings, gwOrders, gwPaid,
                  storeUp, requests, now, firstIssue, winners >>
  /\ sameMs' = FALSE

WebhookStep(p) ==
  \/ WPayment(p) \/ WUpdate(p) \/ WOrder(p) \/ WRound(p) \/ WInsert(p)

(* ---------------------- POST /api/admin/settings ---------------------- *)

\* values of a body field: 0 stands for a field left out (x || d takes d)
SettingsRounds == {0, 3}
SettingsPrices == {0, 60}
SettingsTotals == {0, 5}

\* POST /api/admin/settings arrives
StartSettings(p, lottery_round, ticket_price, total_tickets) ==
  /\ CanStart(p)
  /\ requests' = requests + 1
  /\ proc' = [proc EXCEPT ![p] =
       [IdleProc EXCEPT
          !.pc = "s_current", !.op = "settings", !.rid = requests + 1,
          !.lotteryRound = lottery_round, !.ticketPrice = ticket_price,
          !.totalTickets = total_tickets]]
  /\ UNCHANGED << variant, users, payments, tickets, settings, gwOrders, gwPaid,
                  storeUp, now, sameMs, delivered, firstIssue, winners >>

\* .eq("is_active", true).single(): the row when exactly one is active; no row,
\* several rows and a store error all leave current empty
SingleActive ==
  IF storeUp /\ Cardinality(ActiveSettings) = 1
  THEN CHOOSE row \in ActiveSettings : TRUE
  ELSE NoSettings

SCurrent(p) ==
  LET r == proc[p]
      current == SingleActive
  IN
  /\ r.pc = "s_current"
  /\ Goto(p, [r EXCEPT !.pc = IF current = NoSettings THEN "s_insert" ELSE "s_update",
                        !.current = current])
  /\ OnlyProc

\* .update({...}).eq("id", current.id), each field falling back to current's value
UpdateSettings(r) ==
  { IF row.id = r.current.id
    THEN [row EXCEPT
            !.lottery_round = OrDefault(r.lotteryRound, r.current.lottery_round),
            !.ticket_price = OrDefault(r.ticketPrice, r.current.ticket_price),
            !.total_tickets = OrDefault(r.totalTickets, r.current.total_tickets)]
    ELSE row : row \in settings }

\* the id the store gives an inserted row
NextSettingsId ==
  IF settings = {} THEN 1
  ELSE 1 + (CHOOSE n \in { row.id : row \in settings } :
              \A row \in settings : row.id <= n)

\* .insert({..., is_active: true}), each field falling back to its default
InsertSettings(r) ==
  settings \cup
    { [id |-> NextSettingsId, is_active |-> TRUE,
       lottery_round |-> OrDefault(r.lotteryRound, DefaultRound),
       ticket_price |-> OrDefault(r.ticketPrice, DefaultPrice),
       total_tickets |-> OrDefault(r.totalTickets, DefaultTotal)] }

\* the answer after the write: server.js does not look at the write's error,
\* part_000 throws it
SettingsAnswer(p, r) ==
  IF storeUp \/ variant = "server"
  THEN RespondWith(p, r, 200, <<>>, "success")
  ELSE RespondWith(p, r, 500, <<>>, "store")

SUpdate(p) ==
  LET r == proc[p] IN
  /\ r.pc = "s_update"
  /\ settings' = IF storeUp THEN UpdateSettings(r) ELSE settings
  /\ SettingsAnswer(p, r)
  /\ UNCHANGED << variant, users, payments, tickets, gwOrders, gwPaid,
                  storeUp, requests, now, delivered, firstIssue, winners >>
  /\ sameMs' = FALSE

SInsert(p) ==
  LET r == proc[p] IN
  /\ r.pc = "s_insert"
  /\ settings' = IF storeUp THEN InsertSettings(r) ELSE settings
  /\ SettingsAnswer(p, r)
  /\ UNCHANGED << variant, users, payments, tickets, gwOrders, gwPaid,
                  storeUp, requests, now, delivered, firstIssue, winners >>
  /\ sameMs' = FALSE

SettingsStep(p) == SCurrent(p) \/ SUpdate(p) \/ SInsert(p)

(* ------------------------- winner operations -------------------------- *)

\* req.body.count of POST /api/admin/auto-generate-winners (0: left out)
WinnerCounts == {0, 1, 2}

\* const prizes = [25000, 10000, 5000, 2000, 1000, 500]
prizes == <<25000, 10000, 5000, 2000, 1000, 500>>

\* index < prizes.length ? prizes[index] : 500, for the index-th winner from 1
PrizeOf(index) == IF index <= Len(prizes) THEN prizes[index] ELSE 500

\* positions of the tickets table a shuffle is taken to put in front
ShufflePositions == {1, 2, Len(tickets)} \cap (1 .. Len(tickets))

\* tickets.sort(() => 0.5 - Math.random()).slice(0, count): count different tickets
Selections(count) ==
  { sel \in [1 .. count -> ShufflePositions] :
      \A i, j \in 1 .. count : i # j => sel[i] # sel[j] }

\* winners.upsert({ ticket_code, prize_amount })
Upsert(ticket_code, prize_amount) ==
  { w \in winners : w.ticket_code # ticket_code }
    \cup { [ticket_code |-> ticket_code, prize_amount |-> prize_amount] }

\* POST /api/admin/auto-generate-winners arrives
StartAutoWinners(p, count) ==
  /\ CanStart(p)
  /\ requests' = requests + 1
  /\ proc' = [proc EXCEPT ![p] =
       [IdleProc EXCEPT
          !.pc = "aw_tickets", !.op = "auto_winners", !.rid = requests + 1,
          !.quantity = count]]
  /\ UNCHANGED << variant, users, payments, tickets, settings, gwOrders, gwPaid,
                  storeUp, now, sameMs, delivered, firstIssue, winners >>

\* part_000 checks count first; then the select of the confirmed tickets, the
\* checks on its result, the shuffle and the slice
AwTickets(p) ==
  LET r == proc[p] IN
  /\ r.pc = "aw_tickets"
  /\ IF variant = "cashfree" /\ r.quantity < 1
     THEN Respond(p, 400, <<>>, "Count must be between 1 and 50")
     ELSE IF ~storeUp
     THEN IF variant = "cashfree"
          THEN Respond(p, 500, <<>>, "store")
          ELSE Respond(p, 400, <<>>, "Not enough tickets")
     ELSE IF variant = "cashfree" /\ Len(tickets) = 0
     THEN Respond(p, 400, <<>>, "No tickets sold yet")
     ELSE IF r.quantity > Len(tickets)
     THEN Respond(p, 400, <<>>, "Not enough tickets")
     ELSE IF r.quantity = 0
     THEN Respond(p, 200, <<>>, "success")
     ELSE \E sel \in Selections(r.quantity) :
            Goto(p, [r EXCEPT
                       !.pc = "aw_upsert", !.attempts = 0,
                       !.codes = [i \in 1 .. r.quantity |-> tickets[sel[i]].ticket_code]])
  /\ OnlyProc

\* for (const w of winners) await upsert(w): one winner per step, then the response
AwUpsert(p) ==
  LET r == proc[p]
      index == r.attempts + 1
  IN
  /\ r.pc = "aw_upsert"
  /\ winners' = IF storeUp THEN Upsert(r.codes[index], PrizeOf(index)) ELSE winners
  /\ IF index < Len(r.codes)
     THEN Goto(p, [r EXCEPT !.attempts = index])
     ELSE RespondWith(p, r, 200, r.codes, "success")
  /\ UNCHANGED << variant, users, payments, tickets, settings, gwOrders, gwPaid,
                  storeUp, requests, now, delivered, firstIssue >>
  /\ sameMs' = FALSE

\* String.prototype.toUpperCase on a ticket code, for the letters the requests use
toUpperCase(code) ==
  [i \in 1 .. Len(code) |->
     IF i = 1 THEN code[i]
     ELSE CASE code[i] = "lot-" -> "LOT-"
            [] code[i] = "a" -> "A"
            [] code[i] = "z" -> "Z"
            [] OTHER -> code[i]]

\* req.body.winners of POST /api/admin/winners: ticket codes as an admin types them
ManualCodes ==
  { <<1, "lot-", "a", "a", "a", "a", "a">>, <<9, "LOT-", "Z", "z", "Z", "z", "9">> }

\* req.body.winners[..].prize_amount
ManualPrize == 750

\* POST /api/admin/winners arrives
StartManualWinners(p, codes) ==
  /\ CanStart(p)
  /\ requests' = requests + 1
  /\ proc' = [proc EXCEPT ![p] =
       [IdleProc EXCEPT
          !.pc = "mw_upsert", !.op = "manual_winners", !.rid = requests + 1,
          !.codes = codes]]
  /\ UNCHANGED << variant, users, payments, tickets, settings, gwOrders, gwPaid,
                  storeUp, now, sameMs, delivered, firstIssue, winners >>

\* for (const w of winners) await upsert(upper-cased code): one per step
MwUpsert(p) ==
  LET r == proc[p]
      index == r.attempts + 1
  IN
  /\ r.pc = "mw_upsert"
  /\ winners' = IF storeUp
                THEN Upsert(toUpperCase(r.codes[index]), ManualPrize) ELSE winners
  /\ IF index < Len(r.codes)
     THEN Goto(p, [r EXCEPT !.attempts = index])
     ELSE RespondWith(p, r, 200, <<>>, "success")
  /\ UNCHANGED << variant, users, payments, tickets, settings, gwOrders, gwPaid,
                  storeUp, requests, now, delivered, firstIssue >>
  /\ sameMs' = FALSE

WinnerStep(p) == AwTickets(p) \/ AwUpsert(p) \/ MwUpsert(p)

(* --------------------------- specifications --------------------------- *)

Step(p) == CreateOrderStep(p) \/ VerifyStep(p) \/ Generate(p) \/ WebhookStep(p)

\* the ids a confirmation can name: an order placed so far, or none (0)
OrderIds == {0} \cup gwOrders \cup { r.order_id : r \in payments }

\* the user ids a verify_payment request can carry
UserIds == { u.id : u \in users }

Arrive(p, quantities) ==
  \/ \E name \in Names, mobile \in Mobiles, quantity \in quantities :
       StartCreateOrder(p, name, mobile, quantity)
  \/ \E order_id \in OrderIds, userId \in UserIds, quantity \in quantities :
       StartVerify(p, order_id, userId, quantity)
  \/ \E order_id \in OrderIds : StartWebhook(p, "PAYMENT_SUCCESS", order_id)

Environment == \E o \in gwOrders : GatewayPay(o)

\* a request is served in the first slot that is not busy
FirstFree(p) == \A q \in Procs : q < p => Busy(q)

\* requests interleave step by step
Next ==
  Environment \/ \E p \in Procs : (FirstFree(p) /\ Arrive(p, InterleavedQuantities)) \/ Step(p)

Spec == Init /\ [][Next]_vars

\* requests run one at a time, in slot 1
SeqNext == Environment \/ Arrive(1, Quantities) \/ Step(1)

SeqSpec == Init /\ [][SeqNext]_vars

\* the store starts failing its calls, and recovers
StoreFail ==
  /\ storeUp
  /\ storeUp' = FALSE
  /\ UNCHANGED << variant, users, payments, tickets, settings, gwOrders, gwPaid,
                  requests, now, sameMs, proc, delivered, firstIssue, winners >>

StoreRecover ==
  /\ ~storeUp
  /\ storeUp' = TRUE
  /\ UNCHANGED << variant, users, payments, tickets, settings, gwOrders, gwPaid,
                  requests, now, sameMs, proc, delivered, firstIssue, winners >>

\* every request the routes accept, valid or not
ArriveAny(p) ==
  \/ \E name \in Names, mobile \in Mobiles \cup InvalidMobiles, quantity \in Quantities :
       StartCreateOrder(p, name, mobile, quantity)
  \/ \E order_id \in OrderIds, userId \in UserIds, quantity \in Quantities :
       StartVerify(p, order_id, userId, quantity)
  \/ \E type \in EventTypes, order_id \in OrderIds \cup {Malformed} :
       StartWebhook(p, type, order_id)

\* requests run one at a time, with any input, against a store that can fail
FaultNext == Environment \/ ArriveAny(1) \/ Step(1) \/ StoreFail \/ StoreRecover

FaultSpec == Init /\ [][FaultNext]_vars

\* requests run one at a time, with any input, against a store that answers
InputNext == Environment \/ ArriveAny(1) \/ Step(1)

InputSpec == Init /\ [][InputNext]_vars

\* a POST /api/admin/settings request with any body
ArriveSettings(p) ==
  \E lottery_round \in SettingsRounds, ticket_price \in SettingsPrices,
     total_tickets \in SettingsTotals :
    StartSettings(p, lottery_round, ticket_price, total_tickets)

\* settings requests interleave step by step
AdminNext == \E p \in Procs : (FirstFree(p) /\ ArriveSettings(p)) \/ SettingsStep(p)

AdminSpec == Init /\ [][AdminNext]_vars

\* a winner request with any body
ArriveWinners(p) ==
  \/ \E count \in WinnerCounts : StartAutoWinners(p, count)
  \/ \E c1, c2 \in ManualCodes : StartManualWinners(p, <<c1, c2>>)

\* every route, requests served one at a time
AllNext ==
  \/ Environment
  \/ ArriveAny(1) \/ ArriveSettings(1) \/ ArriveWinners(1)
  \/ Step(1) \/ SettingsStep(1) \/ WinnerStep(1)

AllSpec == Init /\ [][AllNext]_vars

(* ---------------------- webhook redelivery ---------------------------- *)

\* the order placed by the create_order call served in slot 1
PlacedOrder == proc[1].orderId

OrderPlaced ==
  proc[1].pc = "done" /\ proc[1].op = "create_order" /\ proc[1].status = 200

\* the gateway has received a 200 for its latest delivery, served in slot 2
Acknowledged == proc[2].pc = "done" /\ proc[2].status = 200

\* one order is placed; once it is paid the gateway delivers the success event for
\* it, again after every answer other than 200
DeliveryArrive ==
  \/ /\ proc[1].pc = "idle"
     /\ \E name \in Names, mobile \in Mobiles \cup { u.mobile : u \in users },
           quantity \in Quantities :
          StartCreateOrder(1, name, mobile, quantity)
  \/ /\ OrderPlaced /\ PlacedOrder \in gwPaid /\ ~Acknowledged
     /\ StartWebhook(2, "PAYMENT_SUCCESS", PlacedOrder)

\* POST /api/create-order of part_000, the iteration that has the webhook
CashfreeOrderStep(p) ==
  \/ CfSold(p) \/ CfRound(p) \/ CfUser(p) \/ CfUserUpdate(p) \/ CfUserInsert(p)
  \/ CfGateway(p) \/ CfPayment(p)

\* the service and the gateway at work
DeliveryProgress ==
  Environment \/ DeliveryArrive \/ CashfreeOrderStep(1) \/ WebhookStep(2) \/ Generate(2)

DeliveryNext == DeliveryProgress \/ StoreFail \/ StoreRecover

\* handlers run on, the gateway keeps delivering, a failing store recovers
DeliveryInit == Init /\ variant = "cashfree"

DeliverySpec ==
  /\ DeliveryInit
  /\ [][DeliveryNext]_vars
  /\ WF_vars(DeliveryProgress)
  /\ WF_vars(StoreRecover)

(* ------------------------- returning buyers --------------------------- *)

\* names a returning buyer gives
ReturningNames == {"Asha", "Asha K"}

\* POST /api/create-order from a new phone or from the phone of a known user
ArriveOrder(p) ==
  \E name \in ReturningNames, mobile \in Mobiles \cup { u.mobile : u \in users },
     quantity \in Quantities :
    StartCreateOrder(p, name, mobile, quantity)

\* orders served one at a time
ReturningNext == Environment \/ ArriveOrder(1) \/ CreateOrderStep(1)

ReturningSpec == Init /\ [][ReturningNext]_vars

(* --------------------- two buyers, one confirmation ------------------- *)

\* the phones of two buyers
BuyerMobiles == Mobiles \cup { <<9, 1, 2, 3, 4, 5, 6, 7, 8, 0>> }

\* an order of either buyer, or a verify_payment carrying any order id and any
\* user id
ArriveBuyer(p) ==
  \/ \E name \in Names, mobile \in BuyerMobiles, quantity \in InterleavedQuantities :
       StartCreateOrder(p, name, mobile, quantity)
  \/ \E order_id \in OrderIds, userId \in UserIds, quantity \in InterleavedQuantities :
       StartVerify(p, order_id, userId, quantity)

BuyerNext ==
  Environment \/ ArriveBuyer(1) \/ CreateOrderStep(1) \/ VerifyStep(1) \/ Generate(1)

BuyerSpec == Init /\ [][BuyerNext]_vars

(* ------------------- quantity, amount and back ------------------------ *)

\* req.body.quantity is a JSON number: here quantities and amounts are counted in
\* halves, so that 3 stands for a quantity of 1.5 and 303 for an amount of 151.5
Halves == 2

\* quantities from 0.5 to 50, in halves
HalfQuantities == 1 .. 100

\* !quantity || quantity <= 0 of part_000: the only test on quantity
QuantityAccepted(quantity) == quantity > 0

\* create_order of part_000 as far as the amount: amount = quantity * TICKET_PRICE
PlaceOrder ==
  \E quantity \in HalfQuantities :
    /\ proc[1].pc = "idle"
    /\ QuantityAccepted(quantity)
    /\ proc' = [proc EXCEPT ![1] =
         [IdleProc EXCEPT
            !.pc = "done", !.op = "create_order", !.status = 200,
            !.quantity = quantity, !.amount = quantity * TICKET_PRICE]]
    /\ UNCHANGED << variant, users, payments, tickets, settings, gwOrders, gwPaid,
                    storeUp, requests, now, sameMs, delivered, firstIssue, winners >>

\* the webhook as far as quantity = Math.round(orderRow.amount / TICKET_PRICE); the
\* result is a whole number
DeriveQuantity ==
  /\ proc[1].pc = "done" /\ proc[2].pc = "idle"
  /\ proc' = [proc EXCEPT ![2] =
       [IdleProc EXCEPT
          !.pc = "w_round", !.op = "webhook", !.amount = proc[1].amount,
          !.quantity = MathRound(proc[1].amount, Halves * TICKET_PRICE)]]
  /\ UNCHANGED << variant, users, payments, tickets, settings, gwOrders, gwPaid,
                  storeUp, requests, now, sameMs, delivered, firstIssue, winners >>

QuantitySpec == DeliveryInit /\ [][PlaceOrder \/ DeriveQuantity]_vars

(* ------------------------- the code generator alone -------------------- *)

\* rounds the generator is called with
Rounds == {1, 2, 12}

\* values of Math.floor(Math.random() * chars.length): the ends of the letters and
\* of the digits in chars
RandomIndexes == {0, 25, 26, 35}

\* the first candidate of a generateUniqueTicketCodes call: generateRandomCode(5)
\* and the template `${lotteryRound}LOT-${randomPart}`
GenerateCandidate ==
  \E lotteryRound \in Rounds, draws \in [1 .. CodeLength -> RandomIndexes] :
    /\ proc[1].pc = "idle"
    /\ proc' = [proc EXCEPT ![1] =
                  [IdleProc EXCEPT
                     !.pc = "gen", !.op = "verify_payment", !.quantity = 1,
                     !.lotteryRound = lotteryRound, !.attempts = 1,
                     !.codes = <<TicketCode(lotteryRound, generateRandomCode(draws))>>]]
    /\ UNCHANGED << variant, users, payments, tickets, settings, gwOrders, gwPaid,
                    storeUp, requests, now, sameMs, delivered, firstIssue, winners >>

CodeSpec == Init /\ [][GenerateCandidate]_vars

(* ------------------------------- claims -------------------------------- *)

Quiescent == \A p \in Procs : ~Busy(p)

\* the tickets minted while confirming order o
TicketsOf(o) == { i \in 1 .. Len(tickets) : tickets[i].ord = o }

InsertPcs == {"v_insert", "p_insert", "w_insert"}

Exhausted(r) == r.pc = "done" /\ r.message = "Failed to generate unique ticket codes"

\* C1: once no request is in flight, every Payment with status success has exactly
\* amount / ticket_price tickets minted for its order, whichever entry point
\* confirmed it and whatever quantity the verify_payment request carried.
C1_SuccessHasPaidTickets ==
  Quiescent =>
    \A r \in payments :
      r.status = "success" =>
        Cardinality(TicketsOf(r.order_id)) * PriceOf(variant) = r.amount

\* the second of two success deliveries for an order has answered; the first one,
\* completed before it arrived, found the order's Payment in status created
SecondDelivery(r) ==
  r.pc = "done" /\ r.op = "webhook" /\ r.dup /\ r.type = "PAYMENT_SUCCESS"

\* the tickets that webhook deliveries minted for order o
WebhookTicketsOf(o) == { i \in TicketsOf(o) : tickets[i].via = "webhook" }

\* C2: after two success deliveries of the webhook for one order, one after the
\* other, the first finding the Payment in status created, the order's tickets were
\* issued exactly once: the second delivery added no ticket and changed no Payment,
\* and the deliveries minted round(amount / ticket_price) tickets for the order.
C2_TwoDeliveriesIssueOnce ==
  \A p \in Procs :
    SecondDelivery(proc[p]) =>
      /\ proc[p].minted = 0
      /\ ~proc[p].touched
      /\ \A r \in PaymentsByOrder(proc[p].order_id) :
           Cardinality(WebhookTicketsOf(proc[p].order_id)) = WebhookQuantity(r.amount)

\* the part of C2 that is about the second delivery alone: none of its steps adds a
\* ticket or changes a Payment
SecondDeliveryIsNoOp ==
  [][ \A p \in Procs :
        (Busy(p) /\ proc[p].op = "webhook" /\ proc[p].dup /\ proc'[p] # proc[p])
          => (tickets' = tickets /\ payments' = payments) ]_vars

\* both deliveries answered 200 and the order has its tickets
BothDeliveriesAnswered ==
  \E p \in Procs :
    /\ SecondDelivery(proc[p])
    /\ proc[p].message = "Already processed"
    /\ WebhookTicketsOf(proc[p].order_id) # {}

\* C3: a verify_payment call that repeats the arguments of an earlier call that
\* issued its quantity of tickets mints nothing, and when it answers 200 it returns
\* the set of codes the first call returned.
C3_RepeatVerifyReturnsFirstCodes ==
  \A p \in Procs :
    (proc[p].pc = "done" /\ proc[p].op = "verify_payment" /\ proc[p].after) =>
      /\ proc[p].minted = 0
      /\ proc[p].status = 200 =>
           \A f \in FirstIssueOf(proc[p].order_id, proc[p].userId, proc[p].quantity) :
             Range(proc[p].body) = f.codes

\* C4: no order has tickets minted both by a webhook delivery and by a
\* verify_payment call when requests run one after the other.
C4_WebhookAndVerifyMintOneBatch ==
  \A i, j \in 1 .. Len(tickets) :
    ~(/\ tickets[i].ord = tickets[j].ord
      /\ tickets[i].via = "webhook"
      /\ tickets[j].via = "verify_payment")

\* amount / ticket_price of a Payment row
PaidQuantity(r) == r.amount \div PriceOf(variant)

\* C5: two overlapping confirmations of the same paid order, each asking for the
\* paid quantity, together mint no more than the paid quantity; stated for the pairs
\* whose handler checks for an earlier issuance (two webhook deliveries; two
\* verify_payment calls of server.js), which mint once when run one after the other.
C5_ConcurrentConfirmationsMintOnce ==
  \A p, q \in Procs : \A r \in payments :
    (/\ p # q
     /\ variant = "cashfree" => (proc[p].op = "webhook" /\ proc[q].op = "webhook")
     /\ proc[p].pc = "done" /\ proc[q].pc = "done"
     /\ proc[p].op \in Confirmations /\ proc[q].op \in Confirmations
     /\ proc[p].order_id = r.order_id /\ proc[q].order_id = r.order_id
     /\ proc[p].overlap /\ proc[q].overlap
     /\ r.order_id \in gwPaid
     /\ proc[p].op = "verify_payment" => proc[p].quantity = PaidQuantity(r)
     /\ proc[q].op = "verify_payment" => proc[q].quantity = PaidQuantity(r))
    => proc[p].minted + proc[q].minted <= PaidQuantity(r)

\* C6: a verify_payment call to which the gateway reported a status other than
\* success on every query of its retry budget (PollAttempts queries in the polling
\* loop, one in server.js) returns 400, has minted no ticket and has changed no
\* Payment: a Payment that was in status created still is.
C6_NotConfirmedChangesNothing ==
  \A p \in Procs :
    (proc[p].pc = "done" /\ proc[p].op = "verify_payment" /\ proc[p].answer = "ACTIVE") =>
      /\ proc[p].status = 400
      /\ proc[p].minted = 0
      /\ ~proc[p].touched
      /\ variant = "cashfree" => proc[p].polls = PollAttempts
      /\ proc[p].was = "created" =>
           \E r \in PaymentsByOrder(proc[p].order_id) : r.status = "created"

\* C6 witness: the polling loop has used its whole retry budget on an order whose
\* Payment was and still is in status created, and the call has answered 400.
C6_Witness ==
  \E p \in Procs :
    /\ proc[p].pc = "done" /\ proc[p].op = "verify_payment"
    /\ proc[p].answer = "ACTIVE" /\ proc[p].status = 400
    /\ proc[p].polls = PollAttempts /\ proc[p].was = "created"
    /\ \E r \in PaymentsByOrder(proc[p].order_id) : r.status = "created"

\* the single status check of server.js has answered 400 in the same situation
SingleCheckNotConfirmed ==
  \E p \in Procs :
    /\ variant = "server"
    /\ proc[p].pc = "done" /\ proc[p].op = "verify_payment"
    /\ proc[p].answer = "ACTIVE" /\ proc[p].status = 400 /\ proc[p].was = "created"
    /\ \E r \in PaymentsByOrder(proc[p].order_id) : r.status = "created"

\* C7: after a create_order that failed at the gateway no Payment of its order id is
\* left in status created, and its compensating delete removes no Payment row that
\* another request inserted.
C7_CompensationTouchesOwnOrderOnly ==
  /\ [] (\A p \in Procs :
           (proc[p].pc = "done" /\ proc[p].op = "create_order"
              /\ proc[p].message = "gateway") =>
             \A r \in PaymentsByOrder(proc[p].orderId) :
               r.rid = proc[p].rid => r.status # "created")
  /\ [][ \A p \in Procs :
           (proc[p].op = "create_order" /\ proc'[p].pc = "done"
              /\ proc'[p].message = "gateway" /\ proc[p].pc # "done") =>
             \A r \in payments : r.rid # proc[p].rid => r \in payments' ]_vars

\* C8: when requests run one at a time, remaining = total_tickets - sold_count is
\* never negative.
C8_RemainingNeverNegative == TotalOf(variant) - Len(tickets) >= 0

\* C9: a batch returned by the issuance engine holds exactly quantity codes,
\* pairwise distinct and none of them stored.
C9_BatchDistinctAndFresh ==
  \A p \in Procs :
    proc[p].pc \in InsertPcs =>
      /\ Len(proc[p].codes) = proc[p].quantity
      /\ \A i, j \in 1 .. Len(proc[p].codes) :
           i # j => proc[p].codes[i] # proc[p].codes[j]
      /\ \A i \in 1 .. Len(proc[p].codes) : ~TicketExists(proc[p].codes[i])

\* C10: the engine stays within quantity * 10 attempts, and a confirmation that
\* failed because the budget ran out has inserted no ticket and leaves the order's
\* Payment, created when the confirmation arrived, without status success.
C10_ExhaustionLeavesPaymentUnconfirmed ==
  \A p \in Procs :
    /\ proc[p].pc = "gen" => proc[p].attempts < MaxAttempts(proc[p].quantity)
    /\ (Exhausted(proc[p]) /\ proc[p].was = "created") =>
         /\ proc[p].minted = 0
         /\ \A r \in PaymentsByOrder(proc[p].order_id) : r.status # "success"

\* the step of request p that completes its batch insert, the insert failing
InsertFails(p) ==
  /\ proc[p].pc \in InsertPcs
  /\ ~InsertOk(proc[p].codes)
  /\ proc'[p] # proc[p]

\* C11: when the batch insert of a confirmation fails, no ticket of the batch is
\* stored, the request answers with a failure status and its answer carries no codes.
C11_InsertFailureIsTotalFailure ==
  [][ \A p \in Procs :
        InsertFails(p) =>
          /\ tickets' = tickets
          /\ proc'[p].pc = "done"
          /\ proc'[p].status >= 400
          /\ proc'[p].body = <<>> ]_vars

\* a step of request p, which is still running
Steps(p) == Busy(p) /\ proc'[p] # proc[p]

\* a step that writes no user, no Payment and no ticket and places no gateway order
WritesNothing ==
  /\ users' = users
  /\ payments' = payments
  /\ tickets' = tickets
  /\ gwOrders' = gwOrders

InvalidPhone(r) == r.op = "create_order" /\ r.mobile \in InvalidMobiles

\* C12: a create_order whose phone is not exactly 10 digits is answered 400 by its
\* first step, which writes no user, no Payment and no ticket and calls no gateway.
C12_InvalidPhoneRejectedBeforeWrites ==
  [][ \A p \in Procs :
        (InvalidPhone(proc[p]) /\ Steps(p)) =>
          /\ WritesNothing
          /\ proc'[p].pc = "done"
          /\ proc'[p].status = 400 ]_vars

\* C12 witness: such a request has been answered 400 while the store holds rows
C12_Witness ==
  \E p \in Procs :
    /\ proc[p].pc = "done" /\ InvalidPhone(proc[p]) /\ proc[p].status = 400
    /\ payments # {}

\* total_tickets as the store holds it, whether or not the store answers
Inventory ==
  IF variant = "server" /\ ActiveSettings # {}
  THEN OrDefault(LatestActive.total_tickets, DefaultTotal)
  ELSE TotalOf(variant)

\* a create_order that asks for more than total_tickets - sold_count
Oversized(r) == r.op = "create_order" /\ Inventory - Len(tickets) < r.quantity

\* C13: a create_order for more than the remaining inventory, served alone, never
\* gets past the inventory check: its steps write no user and no Payment and place
\* no gateway order, and it is answered 400 (or with the error of a failing store).
C13_OversizedOrderRejected ==
  [][ \A p \in Procs :
        (Oversized(proc[p]) /\ Steps(p)) =>
          /\ WritesNothing
          /\ proc'[p].pc \in {"co_total", "co_sold", "done"}
          /\ proc'[p].pc = "done" => (proc'[p].status = 400 \/ ~storeUp) ]_vars

\* an oversized order has been answered by the inventory check of each iteration
OversizedRejected ==
  \E p \in Procs :
    /\ proc[p].pc = "done" /\ Oversized(proc[p]) /\ IsTenDigits(proc[p].mobile)
    /\ proc[p].status = 400

\* a step that changes no Payment and no ticket
ConfirmsNothing == payments' = payments /\ tickets' = tickets

OtherEvent(r) == r.op = "webhook" /\ r.type # "PAYMENT_SUCCESS"

\* C14: a webhook delivery whose event type is not the payment-success event is
\* answered 200 by its first step, which updates no Payment and creates no ticket.
C14_OtherEventsIgnored ==
  [][ \A p \in Procs :
        (OtherEvent(proc[p]) /\ Steps(p)) =>
          /\ ConfirmsNothing
          /\ proc'[p].pc = "done"
          /\ proc'[p].status = 200 ]_vars

\* C14 witness: such a delivery, for an order whose Payment is waiting in status
\* created, has been answered 200
C14_Witness ==
  \E p \in Procs :
    /\ proc[p].pc = "done" /\ OtherEvent(proc[p]) /\ proc[p].status = 200
    /\ \E r \in PaymentsByOrder(proc[p].order_id) : r.status = "created"

\* a success event for an order id without a Payment row, or whose Payment had
\* status success, when the delivery arrived
NothingToConfirm(r) ==
  /\ r.op = "webhook" /\ r.type = "PAYMENT_SUCCESS" /\ r.order_id # Malformed
  /\ r.was \in {"none", "success"}

\* C15: a success-event delivery for an order id that has no Payment row, or whose
\* Payment already has status success, is answered 200 by its first step, which
\* changes neither payments nor tickets.
C15_NothingToConfirmIsNoOp ==
  [][ \A p \in Procs :
        (NothingToConfirm(proc[p]) /\ Steps(p)) =>
          /\ ConfirmsNothing
          /\ proc'[p].pc = "done"
          /\ proc'[p].status = 200 ]_vars

\* C15 witness: a delivery for an order that an earlier confirmation set to success
\* and issued tickets for has been answered 200
C15_Witness ==
  \E p \in Procs :
    /\ proc[p].pc = "done" /\ NothingToConfirm(proc[p]) /\ proc[p].was = "success"
    /\ proc[p].status = 200
    /\ TicketsOf(proc[p].order_id) # {}

\* a delivery for an order id without a Payment row has been answered 200
UnknownOrderAnswered ==
  \E p \in Procs :
    /\ proc[p].pc = "done" /\ NothingToConfirm(proc[p]) /\ proc[p].was = "none"
    /\ proc[p].status = 200

\* a verify_payment call, answered, that carried the user and the paid quantity of
\* Payment row r, found r in status created and was told PAID by the gateway
HappyVerify(r, row) ==
  /\ r.pc = "done" /\ r.op = "verify_payment"
  /\ r.order_id = row.order_id /\ r.userId = row.user_id
  /\ r.quantity * PriceOf(variant) = row.amount
  /\ r.was = "created" /\ r.answer = "PAID"

\* C16: a create_order step that persists a Payment writes one row with amount =
\* quantity * ticket_price and status created; and a verify_payment call for that
\* order, user and quantity, made once the gateway reports the order paid, answers
\* 200 with exactly quantity codes of the current round and leaves the Payment in
\* status success.
C16_HappyPath ==
  /\ [][ \A p \in Procs :
           (proc[p].op = "create_order" /\ Steps(p) /\ payments' \ payments # {}) =>
             \E row \in payments' \ payments :
               /\ payments' = payments \cup {row}
               /\ row.amount = proc[p].quantity * PriceOf(variant)
               /\ row.status = "created" ]_vars
  /\ [] (\A p \in Procs : \A row \in payments :
           HappyVerify(proc[p], row) =>
             /\ proc[p].status = 200
             /\ Len(proc[p].body) = proc[p].quantity
             /\ \A i \in 1 .. Len(proc[p].body) :
                  proc[p].body[i][1] = getCurrentLotteryRound
             /\ row.status = "success")

\* the first half of C16 alone: what create_order persists
CreateOrderPersistsCreatedPayment ==
  [][ \A p \in Procs :
        (proc[p].op = "create_order" /\ Steps(p) /\ payments' \ payments # {}) =>
          \E row \in payments' \ payments :
            /\ payments' = payments \cup {row}
            /\ row.amount = proc[p].quantity * PriceOf(variant)
            /\ row.status = "created" ]_vars

\* a verify_payment call on the happy path has answered 200 with its codes
HappyVerifyAnswered ==
  \E p \in Procs : \E row \in payments :
    /\ HappyVerify(proc[p], row) /\ proc[p].status = 200
    /\ Len(proc[p].body) = proc[p].quantity /\ row.status = "success"

\* the 36 symbols A-Z and 0-9
Alphabet ==
  { "A", "B", "C", "D", "E", "F", "G", "H", "I", "J", "K", "L", "M",
    "N", "O", "P", "Q", "R", "S", "T", "U", "V", "W", "X", "Y", "Z",
    "0", "1", "2", "3", "4", "5", "6", "7", "8", "9" }

\* code is round r, then "LOT-", then exactly 5 symbols of the alphabet
MatchesPattern(r, code) ==
  /\ Len(code) = 7
  /\ code[1] = r
  /\ code[2] = "LOT-"
  /\ \A i \in 3 .. 7 : code[i] \in Alphabet

StoredCodesMatchPattern ==
  /\ \A i \in 1 .. Len(tickets) :
       \E r \in {DefaultRound} \cup { row.lottery_round : row \in settings } :
         MatchesPattern(r, tickets[i].ticket_code)
  /\ \A p \in Procs : \A i \in 1 .. Len(proc[p].body) :
       \E r \in {DefaultRound} \cup { row.lottery_round : row \in settings } :
         MatchesPattern(r, proc[p].body[i])

\* a delivery that can never be processed: another event type, no order data in
\* the payload, or an order id no Payment row has
PermanentlyInvalid(r) ==
  /\ r.op = "webhook"
  /\ \/ r.type # "PAYMENT_SUCCESS"
     \/ r.order_id = Malformed
     \/ r.was = "none"

\* C18: every webhook delivery whose payload can never be processed (wrong event
\* type, missing or malformed order data, unknown order id) is answered 200.
C18_InvalidPayloadAnswered200 ==
  \A p \in Procs :
    (proc[p].pc = "done" /\ PermanentlyInvalid(proc[p])) => proc[p].status = 200

\* the deliveries of C18 whose payload carries an order id are answered 200
InvalidPayloadWithOrderIdAnswered200 ==
  \A p \in Procs :
    (proc[p].pc = "done" /\ PermanentlyInvalid(proc[p]) /\ proc[p].order_id # Malformed)
      => proc[p].status = 200

\* row with its status set to success
Confirmed(row) == [row EXCEPT !.status = "success"]

\* the step is one of verify_payment or handle_webhook
ConfirmationStep ==
  \E p \in Procs : Steps(p) /\ proc[p].op \in Confirmations

\* C19: a Payment row with status success is still there with status success after
\* every step; a row that appears with status success is a created row that a step
\* of verify_payment or handle_webhook confirmed; every other new row has status
\* created.
C19_SuccessIsTerminal ==
  [][ /\ \A row \in payments : row.status = "success" => row \in payments'
      /\ \A row \in payments' \ payments :
           IF row.status = "success"
           THEN /\ \E old \in payments : old.status = "created" /\ row = Confirmed(old)
                /\ ConfirmationStep
           ELSE row.status = "created" ]_vars

\* a confirmation has set the Payment of a create_order call to success and has
\* been answered
ConfirmationAnswered ==
  \E p \in Procs : \E row \in payments :
    /\ row.status = "success" /\ row.rid # 100
    /\ proc[p].pc = "done" /\ proc[p].op \in Confirmations
    /\ proc[p].order_id = row.order_id /\ proc[p].touched

\* C20: no two Payment rows share an order id, whatever the interleaving of the
\* create_order calls and whatever the clock reads.
C20_OrderIdsUnique ==
  \A r1, r2 \in payments : r1.order_id = r2.order_id => r1 = r2

\* with requests served one at a time every Payment has its own order id, and
\* two create_order calls have persisted a Payment each
TwoPaymentsPersisted ==
  \E r1, r2 \in payments :
    r1.rid # 100 /\ r2.rid # 100 /\ r1.order_id # r2.order_id

\* C21: at most one User row exists per phone number, whatever the interleaving
\* of the create_order calls, and two Payments ordered from one phone reference
\* the same User.
C21_OneUserPerPhone ==
  /\ \A u1, u2 \in users : u1.mobile = u2.mobile => u1 = u2
  /\ \A r1, r2 \in payments :
       (\E u1, u2 \in users :
          u1.id = r1.user_id /\ u2.id = r2.user_id /\ u1.mobile = u2.mobile)
         => r1.user_id = r2.user_id

\* two create_order calls for one phone, one after the other, have persisted a
\* Payment each for the single User of that phone
TwoOrdersOneUser ==
  /\ Cardinality(users) = 1
  /\ \E r1, r2 \in payments : r1 # r2 /\ r1.user_id = r2.user_id

\* C22: at most one LotterySettings row has is_active = true, for any sequence
\* and any interleaving of POST /api/admin/settings requests.
C22_OneActiveSettingsRow == Cardinality(ActiveSettings) <= 1

\* a settings request has updated the single active row
ActiveRowUpdated ==
  \E p \in Procs :
    /\ proc[p].pc = "done" /\ proc[p].op = "settings" /\ proc[p].status = 200
    /\ Cardinality(ActiveSettings) = 1
    /\ \E row \in ActiveSettings : row.lottery_round = 3 /\ row.ticket_price = 60

\* the placed order is paid at the gateway and its Payment is in status created
PaidAndCreated ==
  /\ OrderPlaced /\ PlacedOrder \in gwPaid
  /\ \E row \in PaymentsByOrder(PlacedOrder) : row.status = "created"

\* the deliveries the model admits are used up and none was answered 200
DeliveriesUsedUp == requests = MaxRequests /\ ~Busy(2) /\ ~Acknowledged

\* C23: once the gateway has confirmed payment for an order whose Payment is in
\* status created, and the gateway redelivers the success event until it gets a
\* 200, the order's tickets are eventually stored (within the deliveries admitted).
C23_PaidOrderGetsTickets ==
  PaidAndCreated ~> (TicketsOf(PlacedOrder) # {} \/ DeliveriesUsedUp)

\* a redelivery was answered 200 for an order that has no ticket
AcknowledgedWithoutTickets ==
  /\ OrderPlaced /\ PlacedOrder \in gwPaid /\ Acknowledged
  /\ proc[2].message = "Already processed"
  /\ TicketsOf(PlacedOrder) = {}

\* a delivery stored the order's tickets
DeliveryStoredTickets ==
  OrderPlaced /\ Acknowledged /\ TicketsOf(PlacedOrder) # {}

\* how far a handler is from its response, counted in awaited calls still ahead
\* of it outside the two loops
StepsAhead(pc) ==
  CASE pc \in {"co_price", "cf_sold", "v_status", "w_payment"} -> 9
    [] pc \in {"co_total", "cf_round", "v_existing", "w_update"} -> 8
    [] pc \in {"co_sold", "cf_user", "v_payment", "p_poll", "w_order"} -> 7
    [] pc \in {"co_user", "cf_user_update", "cf_user_insert",
               "v_round", "p_round", "w_round"} -> 6
    [] pc \in {"co_user_insert", "cf_gateway", "gen"} -> 5
    [] pc \in {"co_payment", "cf_payment", "v_insert", "p_insert", "w_insert"} -> 4
    [] pc \in {"co_gateway", "v_update", "p_update", "s_current"} -> 3
    [] pc \in {"co_cleanup", "s_update", "s_insert"} -> 2
    [] OTHER -> 0

\* the iterations a handler's current loop can still make
IterationsLeft(r) ==
  CASE r.pc = "p_poll" -> PollAttempts - r.polls
    [] r.pc = "gen" -> MaxAttempts(r.quantity) - r.attempts
    [] OTHER -> 0

\* a bound on the awaited calls a handler still makes before it answers
Remaining(r) == 100 * StepsAhead(r.pc) + IterationsLeft(r)

\* C24: every retry loop is bounded and every request ends with a response: a
\* status query is made only after fewer than 5 earlier ones of the call, a
\* candidate lookup only after fewer than quantity * 10 earlier ones, whatever the
\* store answers; every loop iteration uses up one unit of its budget, and outside
\* the two loops no handler returns to a call it has made (each step brings the
\* handler closer to its response).
C24_LoopsBoundedRequestsTerminate ==
  /\ [] (\A p \in Procs :
           /\ proc[p].pc = "p_poll" => proc[p].polls < 5
           /\ proc[p].pc = "gen" => proc[p].attempts < proc[p].quantity * 10
           /\ proc[p].polls <= 5
           /\ Remaining(proc[p]) >= 0)
  /\ [][ \A p \in Procs :
           Steps(p) =>
             /\ Remaining(proc'[p]) < Remaining(proc[p])
             /\ (proc[p].pc = "p_poll" /\ proc'[p].pc = "p_poll")
                  => proc'[p].polls = proc[p].polls + 1
             /\ (proc[p].pc = "gen" /\ proc'[p].pc = "gen")
                  => proc'[p].attempts = proc[p].attempts + 1 ]_vars

\* C24 witness: a call for 2 tickets has used its whole budget of 20 candidates
\* and has answered
C24_Witness ==
  \E p \in Procs :
    /\ Exhausted(proc[p]) /\ proc[p].quantity = 2 /\ proc[p].status = 500

\* a verify_payment call has made its 5 status queries and has answered
FivePollsAnswered ==
  \E p \in Procs :
    /\ proc[p].pc = "done" /\ proc[p].op = "verify_payment"
    /\ proc[p].polls = 5 /\ proc[p].status = 400

\* the stored tickets are still there, unchanged and in place
TicketsKept ==
  /\ Len(tickets') >= Len(tickets)
  /\ SubSeq(tickets', 1, Len(tickets)) = tickets

\* C25: the stored tickets only grow: no step updates or deletes a stored ticket,
\* tickets are added only by the insert of an issuance (verify_payment, webhook),
\* and create_order, the settings operation and the winner operations leave the
\* tickets table unchanged.
C25_TicketsImmutable ==
  [][ /\ TicketsKept
      /\ tickets' # tickets =>
           \E p \in Procs :
             /\ Steps(p) /\ proc[p].pc \in InsertPcs
             /\ proc[p].op \in Confirmations ]_vars

\* C25 witness: a confirmation has stored an order's tickets, and a winner
\* operation has then drawn one of them
C25_Witness ==
  /\ \E p \in Procs :
       proc[p].pc = "done" /\ proc[p].op = "auto_winners" /\ proc[p].status = 200
  /\ \E i \in 1 .. Len(tickets) : \E w \in winners :
       tickets[i].ord # 100 /\ w.ticket_code = tickets[i].ticket_code

\* a manual winner row carries the upper-cased code
ManualWinnerStored ==
  \E w \in winners : w.ticket_code = <<9, "LOT-", "Z", "Z", "Z", "Z", "9">>

\* C26: the quantity the webhook derives as round(amount / ticket_price) equals
\* the quantity of the create_order call that created the Payment, for every
\* quantity create_order accepts (quantities in halves under QuantitySpec).
C26_DerivedQuantityIsOrdered ==
  proc[2].pc = "w_round" => Halves * proc[2].quantity = proc[1].quantity

\* for whole quantities the derived quantity is the ordered one
WholeQuantityRoundTrips ==
  (proc[2].pc = "w_round" /\ proc[1].quantity % Halves = 0)
    => Halves * proc[2].quantity = proc[1].quantity

\* the webhook has derived the quantity of an order for 50 tickets
FiftyDerived ==
  proc[2].pc = "w_round" /\ proc[1].quantity = 50 * Halves /\ proc[2].quantity = 50

\* create_order answered 200 for a phone that had a user when the call began
\* (no user row carries the request's id)
ReturningAnswered(r) ==
  /\ r.pc = "done" /\ r.op = "create_order" /\ r.status = 200
  /\ \A u \in UsersByMobile(r.mobile) : u.id # r.rid

\* C27: create_order for a phone that already has a User reuses that User, adding
\* no row, and sets its display name to the request's name: after the call the
\* User's name is the name of the most recent order.
C27_ReturningUserRenamed ==
  ReturningAnswered(proc[1]) =>
    /\ \E u \in UsersByMobile(proc[1].mobile) : u.id = proc[1].userId
    /\ \A u \in UsersByMobile(proc[1].mobile) : u.name = proc[1].name

\* the second iteration renames the user
CashfreeRenames == variant = "cashfree" => C27_ReturningUserRenamed

\* the first iteration reuses the user row
ReturningUserReused ==
  ReturningAnswered(proc[1]) =>
    /\ Cardinality(UsersByMobile(proc[1].mobile)) = 1
    /\ \E u \in UsersByMobile(proc[1].mobile) : u.id = proc[1].userId

\* a returning buyer's order was answered and the user row carries the new name
ReturningRenamed ==
  /\ ReturningAnswered(proc[1])
  /\ \E u \in UsersByMobile(proc[1].mobile) : u.name = "Asha K" /\ u.id = 100

\* the tickets verify_payment stored while the model ran
VerifyMinted ==
  { i \in 1 .. Len(tickets) : tickets[i].via = "verify_payment" /\ tickets[i].ord # 100 }

\* C28: every ticket minted while confirming an order is owned by the user the
\* order's Payment row references, whatever user id verify_payment carries, and
\* verify_payment mints only for an order id that has a Payment row.
C28_TicketOwnerIsPayer ==
  \A i \in VerifyMinted :
    /\ PaymentsByOrder(tickets[i].ord) # {}
    /\ \A row \in PaymentsByOrder(tickets[i].ord) : row.user_id = tickets[i].user_id

\* the webhook gives the tickets to the user of the Payment row it read
WebhookOwnerIsPayer ==
  \A i \in 1 .. Len(tickets) :
    tickets[i].via = "webhook" =>
      \E row \in PaymentsByOrder(tickets[i].ord) : row.user_id = tickets[i].user_id

\* verify_payment stored tickets for the user the Payment row references
PayerGotTickets ==
  \E i \in VerifyMinted :
    \E row \in PaymentsByOrder(tickets[i].ord) : row.user_id = tickets[i].user_id

\* verify_payment mints only for an order id that has a Payment row
VerifyMintsForStoredOrder ==
  \A i \in VerifyMinted : PaymentsByOrder(tickets[i].ord) # {}

\* create_order answered success with an order id and a redirect
OrderAnswered(r) == r.pc = "done" /\ r.op = "create_order" /\ r.status = 200

\* the Payment row a create_order call stored: its order id, status created
StoredPayment(r) ==
  { row \in payments :
      row.rid = r.rid /\ row.order_id = r.orderId /\ row.status = "created" }

\* C29: whenever create_order returns success with an order id and a redirect,
\* a Payment row with that order id and status created exists, also when the
\* payment insert is the store call that fails.
C29_AnsweredOrderHasPayment ==
  OrderAnswered(proc[1]) => StoredPayment(proc[1]) # {}

\* the first iteration answers success only after its payment insert succeeded
ServerOrderHasPayment == variant = "server" => C29_AnsweredOrderHasPayment

\* an order was answered and its Payment row is stored
OrderAnsweredWithPayment == OrderAnswered(proc[1]) /\ StoredPayment(proc[1]) # {}

\* an iteration of the candidate loop pushed its candidate
CandidateAdded(p) ==
  /\ proc[p].pc = "gen"
  /\ Len(proc'[p].codes) = Len(proc[p].codes) + 1

\* the lookup of that iteration answered, and no stored ticket has the code
ReportedAbsent(code) ==
  storeUp /\ \A i \in 1 .. Len(tickets) : tickets[i].ticket_code # code

\* C30: the issuance engine accepts a candidate only when the store affirmatively
\* reports that no ticket has that code; when the lookup fails with a store error
\* the candidate is not added.
C30_AcceptedOnlyWhenAbsent ==
  [][\A p \in Procs :
       CandidateAdded(p) => ReportedAbsent(proc'[p].codes[Len(proc'[p].codes)])]_vars

\* a candidate whose lookup answered is pushed only when no ticket has its code
AnsweredLookupAccepts ==
  [][\A p \in Procs :
       (CandidateAdded(p) /\ storeUp)
         => ReportedAbsent(proc'[p].codes[Len(proc'[p].codes)])]_vars

\* the loop holds a candidate that a stored ticket already carries
TakenCodeAccepted ==
  \E p \in Procs :
    \E k \in 1 .. Len(proc[p].codes) :
      \E i \in 1 .. Len(tickets) : tickets[i].ticket_code = proc[p].codes[k]

====
